---- MODULE Spec2Model ----
(***************************************************************************)
(* DBAsyncSettingsRepository (db_async_settings_repository.py): six async  *)
(* operations over a transactional table of Setting records, translated    *)
(* at the boundary by an ordered, swappable list of dtype converters.      *)
(*                                                                         *)
(* Each coroutine is cut at its awaits: everything between two awaits is   *)
(* one atomic step of the event loop.  The session is SQLAlchemy's         *)
(* AsyncSession API (the module imports sqlalchemy's select and uses       *)
(* execute / scalars / one / all / merge / commit): writes staged in a     *)
(* session reach the table only at commit, in one piece, and a session     *)
(* that is closed without a commit leaves the table as it was.             *)
(***************************************************************************)
EXTENDS Integers, Sequences, FiniteSets, TLC

\* ------------------------------------------------------------- bounds
NumTasks == 2        \* coroutines that may be in flight at once
MaxCalls == 3        \* repository calls started in one behaviour
MaxListLen == 3      \* elements of a list the caller appends to

Tasks == 1..NumTasks
Names == {"a", "b", "c"}

\* ------------------------------------------------------ native values
\* A native value is its Python type and a payload.  True is the bool with
\* payload 1; the str with payload n is the text of n's decimal digits.
INT1 == [ty |-> "int", v |-> 1]
TRUE1 == [ty |-> "bool", v |-> 1]
STR1 == [ty |-> "str", v |-> 1]
Values == {INT1, TRUE1, STR1}

\* isinstance(value, python_type): bool is a subclass of int.
IsInstance(value, python_type) ==
    \/ value.ty = python_type
    \/ value.ty = "bool" /\ python_type = "int"

\* Python's ==: True == 1, while "1" equals neither.
PyEq(x, y) ==
    \/ x = y
    \/ x.ty \in {"int", "bool"} /\ y.ty \in {"int", "bool"} /\ x.v = y.v

\* ---------------------------------------------------------- converters
Dec(n) == IF n = 0 THEN "0" ELSE "1"
Parse(s) == IF s = "0" \/ s = "False" THEN 0 ELSE 1

IntConverter == [TYPE_NAME |-> "int", PYTHON_TYPE |-> "int", codec |-> "int"]
BoolConverter == [TYPE_NAME |-> "bool", PYTHON_TYPE |-> "bool", codec |-> "bool"]
StrConverter == [TYPE_NAME |-> "str", PYTHON_TYPE |-> "str", codec |-> "str"]
\* A second converter registered under the tag "str", for int values.
TextIntConverter == [TYPE_NAME |-> "str", PYTHON_TYPE |-> "int", codec |-> "int"]

to_db_format(converter, value) ==
    IF converter.codec = "bool"
    THEN (IF value.v = 1 THEN "True" ELSE "False")
    ELSE Dec(value.v)

to_python_type(converter, stored) ==
    CASE converter.codec = "bool" -> [ty |-> "bool", v |-> IF stored = "True" THEN 1 ELSE 0]
      [] converter.codec = "int" -> [ty |-> "int", v |-> Parse(stored)]
      [] OTHER -> [ty |-> "str", v |-> Parse(stored)]

\* The converter lists a caller passes to the constructor or to
\* set_dtype_converters.
ConverterLists ==
    { <<StrConverter, TextIntConverter, BoolConverter>>,
      <<BoolConverter, IntConverter>> }

\* ------------------------------------------------------------- records
\* Setting(name=..., type=..., value=...)
Setting(name, type, value) == [name |-> name, type |-> type, value |-> value]
NoSetting == Setting("", "", "")
\* A python dict name -> native value, as a function on the names it holds.
EmptyDict == [n \in {} |-> INT1]
DictPut(d, name, value) ==
    [n \in DOMAIN d \cup {name} |-> IF n = name THEN value ELSE d[n]]

\* An element of a query result: `scalars()` hands out the Setting entity
\* itself; the raw Result hands out Row wrappers, whose only key is the
\* entity ("Setting"), so a Row has no .name, .type or .value.
Scalar(setting) == [scalar |-> TRUE, setting |-> setting]
Row(setting) == [scalar |-> FALSE, setting |-> setting]

\* The Result returned by session.execute has no `delete` attribute.
ResultHasDelete == FALSE

\* ------------------------------------------------- conversion helpers
\* _convert_one_setting_to_db_format: the for/else scan from position i.
RECURSIVE DbFormatFrom(_, _, _, _)
DbFormatFrom(converters, i, setting_name, setting_value) ==
    IF i > Len(converters)
    THEN [st |-> "ConverterNotFound", setting |-> NoSetting, tag |-> setting_value.ty]
    ELSE IF IsInstance(setting_value, converters[i].PYTHON_TYPE)
         THEN [st |-> "ok",
               setting |-> Setting(setting_name, converters[i].TYPE_NAME,
                                   to_db_format(converters[i], setting_value)),
               tag |-> ""]
         ELSE DbFormatFrom(converters, i + 1, setting_name, setting_value)

\* The scan taking the last converter that accepts the value.
RECURSIVE DbFormatLastFrom(_, _, _, _)
DbFormatLastFrom(converters, i, setting_name, setting_value) ==
    IF i < 1
    THEN [st |-> "ConverterNotFound", setting |-> NoSetting, tag |-> setting_value.ty]
    ELSE IF IsInstance(setting_value, converters[i].PYTHON_TYPE)
         THEN [st |-> "ok",
               setting |-> Setting(setting_name, converters[i].TYPE_NAME,
                                   to_db_format(converters[i], setting_value)),
               tag |-> ""]
         ELSE DbFormatLastFrom(converters, i - 1, setting_name, setting_value)

convert_one_last_accepting(converters, setting_name, setting_value) ==
    DbFormatLastFrom(converters, Len(converters), setting_name, setting_value)

convert_one_setting_to_db_format(converters, setting_name, setting_value) ==
    DbFormatFrom(converters, 1, setting_name, setting_value)

\* _convert_settings_to_db_format: settings is the dict's items in
\* insertion order, a sequence of [name, value]; the first failure raises.
RECURSIVE SettingsToDbFrom(_, _, _, _)
SettingsToDbFrom(converters, settings, i, acc) ==
    IF i > Len(settings)
    THEN [st |-> "ok", list |-> acc, tag |-> ""]
    ELSE LET one == convert_one_setting_to_db_format(
                        converters, settings[i].name, settings[i].value)
         IN IF one.st # "ok"
            THEN [st |-> one.st, list |-> <<>>, tag |-> one.tag]
            ELSE SettingsToDbFrom(converters, settings, i + 1, Append(acc, one.setting))

\* A conversion that leaves out the values no converter accepts.
RECURSIVE SettingsToDbSkipFrom(_, _, _, _)
SettingsToDbSkipFrom(converters, settings, i, acc) ==
    IF i > Len(settings)
    THEN [st |-> "ok", list |-> acc, tag |-> ""]
    ELSE LET one == convert_one_setting_to_db_format(
                        converters, settings[i].name, settings[i].value)
         IN SettingsToDbSkipFrom(converters, settings, i + 1,
                IF one.st # "ok" THEN acc ELSE Append(acc, one.setting))

convert_settings_skipping(converters, settings) ==
    SettingsToDbSkipFrom(converters, settings, 1, <<>>)

convert_settings_to_db_format(converters, settings) ==
    SettingsToDbFrom(converters, settings, 1, <<>>)

\* _convert_one_setting_to_python_type: the f-string of the debug line reads
\* setting.name first, then the for/else scan by TYPE_NAME from position i.
RECURSIVE PythonTypeFrom(_, _, _)
PythonTypeFrom(converters, i, setting) ==
    IF i > Len(converters)
    THEN [st |-> "ConverterNotFound", value |-> INT1, tag |-> setting.type]
    ELSE IF converters[i].TYPE_NAME = setting.type
         THEN [st |-> "ok", value |-> to_python_type(converters[i], setting.value),
               tag |-> ""]
         ELSE PythonTypeFrom(converters, i + 1, setting)

\* The scan taking the last converter registered under the record's tag.
RECURSIVE PythonTypeLastFrom(_, _, _)
PythonTypeLastFrom(converters, i, setting) ==
    IF i < 1
    THEN [st |-> "ConverterNotFound", value |-> INT1, tag |-> setting.type]
    ELSE IF converters[i].TYPE_NAME = setting.type
         THEN [st |-> "ok", value |-> to_python_type(converters[i], setting.value),
               tag |-> ""]
         ELSE PythonTypeLastFrom(converters, i - 1, setting)

convert_one_last_tagged(converters, item) ==
    IF ~item.scalar
    THEN [st |-> "AttributeError", value |-> INT1, tag |-> "name"]
    ELSE PythonTypeLastFrom(converters, Len(converters), item.setting)

convert_one_setting_to_python_type(converters, item) ==
    IF ~item.scalar
    THEN [st |-> "AttributeError", value |-> INT1, tag |-> "name"]
    ELSE PythonTypeFrom(converters, 1, item.setting)

\* _convert_settings_to_python_types: one dict entry per element, in result
\* order; a later element of the same name overwrites; the first failure raises.
RECURSIVE SettingsToPythonFrom(_, _, _, _)
SettingsToPythonFrom(converters, items, i, acc) ==
    IF i > Len(items)
    THEN [st |-> "ok", dict |-> acc, tag |-> ""]
    ELSE LET one == convert_one_setting_to_python_type(converters, items[i])
         IN IF one.st # "ok"
            THEN [st |-> one.st, dict |-> EmptyDict, tag |-> one.tag]
            ELSE SettingsToPythonFrom(converters, items, i + 1,
                                      DictPut(acc, items[i].setting.name, one.value))

convert_settings_to_python_types(converters, items) ==
    SettingsToPythonFrom(converters, items, 1, EmptyDict)

\* ---------------------------------------------------------------- store
\* The table's content after an upsert by primary key (name).
Upsert(table, setting) ==
    {r \in table : r.name # setting.name} \cup {setting}

RECURSIVE UpsertAll(_, _, _)
UpsertAll(table, settings, i) ==
    IF i > Len(settings) THEN table
    ELSE UpsertAll(Upsert(table, settings[i]), settings, i + 1)

\* A merge that reaches the committed table at once.
MergeAutocommit(table, setting) == Upsert(table, setting)

\* What `await session.merge(setting)` does to the committed table: nothing,
\* the record is staged in the session.
MergeEffect(table, setting) == table

\* A commit that leaves only the staged records in the table.
CommitReplacing(table, staged) == UpsertAll({}, staged.merged, 1)

\* A commit that inserts the staged records beside the ones in the table.
CommitInserting(table, staged) ==
    (IF staged.delete THEN {} ELSE table)
    \cup {staged.merged[i] : i \in DOMAIN staged.merged}

\* A commit that writes the first staged record only.
CommitFirstOnly(table, staged) ==
    IF staged.merged = <<>> THEN table ELSE Upsert(table, staged.merged[1])

\* What `await session.commit()` does to the committed table: the staged
\* delete (if any) and the staged merges, in one piece.
CommitEffect(table, staged) ==
    UpsertAll(IF staged.delete THEN {} ELSE table, staged.merged, 1)

\* A session that is closed on the normal path only.
SessionLeakOnError(exception) == exception # ""

\* Leaving `async with`: the session is closed on every path; what was
\* staged and not committed is dropped.
SessionOpenAfterExit(exception) == FALSE

\* select(Setting).filter(Setting.name == setting_name)
SelectOne(table, setting_name) == {r \in table : r.name = setting_name}
\* The query without its filter.
SelectUnfiltered(table, setting_names) == table

\* select(Setting).filter(Setting.name.in_(setting_names))
SelectIn(table, setting_names) == {r \in table : r.name \in setting_names}
\* select(Setting)
SelectAll(table) == table

\* first(): no exception when several rows match.
ScalarsFirst(found) ==
    IF Cardinality(found) = 0 THEN "NoResultFound" ELSE ""

\* scalars().one(): the exception it raises, "" when exactly one row matched.
ScalarsOne(found) ==
    IF Cardinality(found) = 0 THEN "NoResultFound"
    ELSE IF Cardinality(found) > 1 THEN "MultipleResultsFound"
    ELSE ""

\* A query result is iterated in an order the store chooses.
Orderings(S) ==
    {f \in [1..Cardinality(S) -> S] : \A i, j \in 1..Cardinality(S) : i # j => f[i] # f[j]}

\* --------------------------------------------------------------- inputs
Item(name, value) == [name |-> name, value |-> value]
\* The dicts passed to set_many and to set_all, as their items in insertion
\* order, the names and values passed to get_one and set_one, and the name
\* lists passed to get_many.
SetManyDicts ==
    { <<Item("a", TRUE1), Item("b", INT1)>>,
      <<Item("b", INT1), Item("c", STR1)>> }
SetAllDicts == { <<Item("b", INT1), Item("c", STR1)>> }
OneNames == {"a"}
OneValues == {INT1, STR1}
NameLists == {{"a", "b"}}
\* Tables the repository may be pointed at that it did not write itself:
\* the Setting model and its constraints are declared outside this module.
ExistingTables ==
    { {Setting("a", "int", "1"), Setting("c", "str", "1")},
      {Setting("a", "int", "1"), Setting("a", "int", "0")},
      {Setting("b", "json", "1"), Setting("c", "bool", "True")} }

\* A registry that keeps the caller's own list object.
AssignmentShares == TRUE

\* `self._dtype_converters = dtype_converters.copy()`: whether the registry
\* is the same list object as the argument.  copy() makes a new one.
CopyShares == FALSE

\* What a caller can do to a list it holds: remove the first element,
\* reorder, append.
Reverse(list) == [i \in 1..Len(list) |-> list[Len(list) + 1 - i]]
Mutations(list) ==
    (IF list # <<>> THEN {Tail(list)} ELSE {})
    \cup {Reverse(list)}
    \cup (IF Len(list) < MaxListLen THEN {Append(list, IntConverter)} ELSE {})

NoOp == [kind |-> "none", name |-> "", value |-> INT1, names |-> {}, settings |-> <<>>]
NoPending == [delete |-> FALSE, merged |-> <<>>]

\* ---------------------------------------------------------------- state
VARIABLES
    store,              \* the committed rows of the Setting table
    dtype_converters,   \* self._dtype_converters
    pc,                 \* per task: the await its coroutine is suspended at
    op,                 \* per task: the call and its arguments
    converted,          \* per task: converted_settings of a set_* call
    pending,            \* per task: what its open session has staged
    items,              \* per task: the elements of its query result (their
                        \* order shows when they are iterated)
    exc,                \* per task: the exception propagating out of `async with`
    session_open,       \* per task: its session is acquired and not yet released
    calls,              \* repository calls started so far
    snap,               \* history: the table as the task's query saw it
    seen,               \* history: written[name] as the task's get_one saw it
    fresh,              \* history: no converter swap since the task's write began
    written,            \* history: per name, the value of the last committed
                        \* set_one with no later write to the name and no swap
    ideal,              \* history: the table built from whole writes only
    active,             \* history: per task, self._dtype_converters as it was
                        \* when the task's call started
    caller_list         \* the list object the caller last passed to __init__
                        \* or to set_dtype_converters, which the caller keeps

vars == <<store, dtype_converters, pc, op, converted, pending, items, exc,
          session_open, calls, snap, seen, fresh, written, ideal, active,
          caller_list>>

NoException == [st |-> "", tag |-> ""]

InitWith(table) ==
    /\ store = table
    /\ dtype_converters \in ConverterLists
    /\ pc = [p \in Tasks |-> "idle"]
    /\ op = [p \in Tasks |-> NoOp]
    /\ converted = [p \in Tasks |-> <<>>]
    /\ pending = [p \in Tasks |-> NoPending]
    /\ items = [p \in Tasks |-> {}]
    /\ exc = [p \in Tasks |-> NoException]
    /\ session_open = [p \in Tasks |-> FALSE]
    /\ calls = 0
    /\ snap = [p \in Tasks |-> {}]
    /\ seen = [p \in Tasks |-> {}]
    /\ fresh = [p \in Tasks |-> FALSE]
    /\ written = [n \in Names |-> {}]
    /\ ideal = table
    /\ active = [p \in Tasks |-> <<>>]
    /\ caller_list = dtype_converters

Init == InitWith({})

\* A call starts in the first task that is not running one.
Free(p) ==
    /\ pc[p] = "idle"
    /\ \A q \in Tasks : q < p => pc[q] # "idle"
    /\ calls < MaxCalls

\* -------------------------------------------------------------- calls
\* A read: the session is acquired (async with), the query is built, and
\* the coroutine awaits session.execute.
BeginRead(p, call) ==
    /\ Free(p)
    /\ calls' = calls + 1
    /\ op' = [op EXCEPT ![p] = call]
    /\ pc' = [pc EXCEPT ![p] = "execute"]
    /\ session_open' = [session_open EXCEPT ![p] = TRUE]
    /\ active' = [active EXCEPT ![p] = dtype_converters]
    /\ UNCHANGED <<store, dtype_converters, converted, pending, items, exc,
                   snap, seen, fresh, written, ideal, caller_list>>

\* A write: the values are converted first; a failure raises before any
\* session exists (the exception is on its way to the caller); otherwise the
\* session is acquired and the coroutine awaits its first store call.
BeginWrite(p, call, conv, first) ==
    /\ Free(p)
    /\ calls' = calls + 1
    /\ op' = [op EXCEPT ![p] = call]
    /\ IF conv.st # "ok"
       THEN /\ pc' = [pc EXCEPT ![p] = "raised"]
            /\ exc' = [exc EXCEPT ![p] = [st |-> conv.st, tag |-> conv.tag]]
            /\ UNCHANGED <<converted, session_open, fresh>>
       ELSE /\ pc' = [pc EXCEPT ![p] = first]
            /\ converted' = [converted EXCEPT ![p] = conv.list]
            /\ session_open' = [session_open EXCEPT ![p] = TRUE]
            /\ fresh' = [fresh EXCEPT ![p] = TRUE]
            /\ UNCHANGED exc
    /\ active' = [active EXCEPT ![p] = dtype_converters]
    /\ UNCHANGED <<store, dtype_converters, pending, items, snap, seen,
                   written, ideal, caller_list>>

\* The await after `done` merges of the list: the next merge, or the commit.
AfterMerges(list, done) == IF done < Len(list) THEN "merge" ELSE "commit"

get_one(p, setting_name) ==
    BeginRead(p, [NoOp EXCEPT !.kind = "get_one", !.name = setting_name])

set_one(p, setting_name, setting_value) ==
    LET one == convert_one_setting_to_db_format(dtype_converters, setting_name, setting_value)
    IN BeginWrite(p, [NoOp EXCEPT !.kind = "set_one", !.name = setting_name,
                                  !.value = setting_value],
                  [st |-> one.st, list |-> <<one.setting>>, tag |-> one.tag],
                  "merge")

get_many(p, setting_names) ==
    BeginRead(p, [NoOp EXCEPT !.kind = "get_many", !.names = setting_names])

set_many(p, settings) ==
    LET conv == convert_settings_to_db_format(dtype_converters, settings)
    IN BeginWrite(p, [NoOp EXCEPT !.kind = "set_many", !.settings = settings],
                  conv, AfterMerges(conv.list, 0))

get_all(p) ==
    BeginRead(p, [NoOp EXCEPT !.kind = "get_all"])

set_all(p, settings) ==
    LET conv == convert_settings_to_db_format(dtype_converters, settings)
    IN BeginWrite(p, [NoOp EXCEPT !.kind = "set_all", !.settings = settings],
                  conv, "execute")

set_dtype_converters(new_converters) ==
    /\ calls < MaxCalls
    /\ dtype_converters' = new_converters
    /\ caller_list' = new_converters
    /\ calls' = calls + 1
    /\ fresh' = [p \in Tasks |-> FALSE]
    /\ seen' = [p \in Tasks |-> {}]
    /\ written' = [n \in Names |-> {}]
    /\ UNCHANGED <<store, pc, op, converted, pending, items, exc, session_open,
                   snap, ideal, active>>

\* -------------------------------------------------------- store steps
\* The call the task awaits raises: the exception leaves `async with`.
Raise(p, exception, tag) ==
    /\ exc' = [exc EXCEPT ![p] = [st |-> exception, tag |-> tag]]
    /\ pc' = [pc EXCEPT ![p] = "exit"]

\* `await session.execute(statement)` and what is taken from its result.
Execute(p) ==
    /\ pc[p] = "execute"
    /\ UNCHANGED <<store, dtype_converters, op, converted, pending, session_open,
                   calls, fresh, written, ideal, active, caller_list>>
    /\ \/ /\ Raise(p, "StoreFailure", "")
          /\ UNCHANGED <<items, snap, seen>>
       \/ /\ snap' = [snap EXCEPT ![p] = store]
          /\ CASE op[p].kind = "get_one" ->
                    \* scalars().one()
                    LET found == SelectOne(store, op[p].name)
                    IN /\ seen' = [seen EXCEPT ![p] = written[op[p].name]]
                       /\ IF ScalarsOne(found) # ""
                          THEN Raise(p, ScalarsOne(found), "") /\ UNCHANGED items
                          ELSE /\ items' = [items EXCEPT ![p] = {Scalar(r) : r \in found}]
                               /\ pc' = [pc EXCEPT ![p] = "exit"]
                               /\ UNCHANGED exc
               [] op[p].kind = "get_many" ->
                    \* scalars().all()
                    /\ items' = [items EXCEPT ![p] =
                                    {Scalar(r) : r \in SelectIn(store, op[p].names)}]
                    /\ pc' = [pc EXCEPT ![p] = "exit"]
                    /\ UNCHANGED <<exc, seen>>
               [] op[p].kind = "get_all" ->
                    \* the Result itself is kept
                    /\ items' = [items EXCEPT ![p] = {Row(r) : r \in SelectAll(store)}]
                    /\ pc' = [pc EXCEPT ![p] = "exit"]
                    /\ UNCHANGED <<exc, seen>>
               [] OTHER ->
                    \* set_all: the Result is kept and never iterated
                    /\ pc' = [pc EXCEPT ![p] = "delete"]
                    /\ UNCHANGED <<items, exc, seen>>

\* set_all: `await selected_settings.delete()`.
Delete(p) ==
    /\ pc[p] = "delete"
    /\ UNCHANGED <<store, dtype_converters, op, converted, items, session_open,
                   calls, snap, seen, fresh, written, ideal, active, caller_list>>
    /\ IF ~ResultHasDelete
       THEN Raise(p, "AttributeError", "delete") /\ UNCHANGED pending
       ELSE \/ Raise(p, "StoreFailure", "") /\ UNCHANGED pending
            \/ /\ pending' = [pending EXCEPT ![p].delete = TRUE]
               /\ pc' = [pc EXCEPT ![p] = AfterMerges(converted[p], 0)]
               /\ UNCHANGED exc

\* `await session.merge(setting)` for the next element of converted_settings.
Merge(p) ==
    /\ pc[p] = "merge"
    /\ UNCHANGED <<dtype_converters, op, converted, items, session_open,
                   calls, snap, seen, fresh, written, ideal, active, caller_list>>
    /\ LET setting == converted[p][Len(pending[p].merged) + 1]
       IN \/ Raise(p, "StoreFailure", "") /\ UNCHANGED <<store, pending>>
          \/ /\ pending' = [pending EXCEPT ![p].merged = Append(@, setting)]
             /\ store' = MergeEffect(store, setting)
             /\ pc' = [pc EXCEPT ![p] =
                          AfterMerges(converted[p], Len(pending[p].merged) + 1)]
             /\ UNCHANGED exc

\* The names a committed write has written.
WrittenNames(call) ==
    CASE call.kind = "set_one" -> {call.name}
      [] call.kind = "set_many" -> {call.settings[i].name : i \in DOMAIN call.settings}
      [] OTHER -> Names

\* The table after a whole write: every record of the call upserted, after
\* the table was emptied if the call is set_all.
WholeWrite(table, call, settings) ==
    LET kept == IF call.kind = "set_all" THEN {}
                ELSE {r \in table : r.name \notin WrittenNames(call)}
    IN kept \cup {settings[i] : i \in DOMAIN settings}

\* `await session.commit()`.
Commit(p) ==
    /\ pc[p] = "commit"
    /\ UNCHANGED <<dtype_converters, op, converted, pending, items, session_open,
                   calls, snap, seen, fresh, active, caller_list>>
    /\ \/ Raise(p, "StoreFailure", "") /\ UNCHANGED <<store, written, ideal>>
       \/ /\ store' = CommitEffect(store, pending[p])
          /\ ideal' = WholeWrite(ideal, op[p], converted[p])
          /\ written' = [n \in Names |->
                IF n \notin WrittenNames(op[p]) THEN written[n]
                ELSE IF op[p].kind = "set_one" /\ fresh[p] THEN {op[p].value}
                ELSE {}]
          /\ pc' = [pc EXCEPT ![p] = "exit"]
          /\ UNCHANGED exc

\* What the call ends with once `async with` is left without an exception:
\* the reads convert what they selected, the writes return None.
Outcome(call, converters, selected) ==
    CASE call.kind = "get_one" ->
            LET one == convert_one_setting_to_python_type(converters, selected[1])
            IN [st |-> one.st, tag |-> one.tag,
                dict |-> IF one.st = "ok" THEN DictPut(EmptyDict, call.name, one.value)
                         ELSE EmptyDict]
      [] call.kind \in {"get_many", "get_all"} ->
            convert_settings_to_python_types(converters, selected)
      [] OTHER -> [st |-> "ok", tag |-> "", dict |-> EmptyDict]

\* A return value converted with the list the call started under.
ReturningAsStarted(p) ==
    IF exc[p].st # ""
    THEN {[st |-> exc[p].st, tag |-> exc[p].tag, dict |-> EmptyDict]}
    ELSE {Outcome(op[p], active[p], selected) :
             selected \in Orderings(items[p])}

\* What the caller receives when the task ends in this state: the pending
\* exception, or the conversion of what was selected, in any result order
\* (a get_one returns dict[name]).
Returning(p) ==
    IF exc[p].st # ""
    THEN {[st |-> exc[p].st, tag |-> exc[p].tag, dict |-> EmptyDict]}
    ELSE {Outcome(op[p], dtype_converters, selected) :
             selected \in Orderings(items[p])}

\* The end of the coroutine: `async with` is left if it was entered (the
\* session is released), then the pending exception propagates, or the
\* conversion runs and the call returns; the caller receives one of
\* Returning(p).
Exit(p) ==
    /\ pc[p] \in {"exit", "raised"}
    /\ session_open' = [session_open EXCEPT ![p] =
                           IF pc[p] = "exit" THEN SessionOpenAfterExit(exc[p].st) ELSE @]
    /\ pc' = [pc EXCEPT ![p] = "idle"]
    /\ op' = [op EXCEPT ![p] = NoOp]
    /\ exc' = [exc EXCEPT ![p] = NoException]
    /\ items' = [items EXCEPT ![p] = {}]
    /\ pending' = [pending EXCEPT ![p] = NoPending]
    /\ converted' = [converted EXCEPT ![p] = <<>>]
    /\ snap' = [snap EXCEPT ![p] = {}]
    /\ seen' = [seen EXCEPT ![p] = {}]
    /\ fresh' = [fresh EXCEPT ![p] = FALSE]
    /\ active' = [active EXCEPT ![p] = <<>>]
    /\ UNCHANGED <<store, dtype_converters, calls, written, ideal, caller_list>>

\* The caller mutates the list it passed last; the registry follows only if
\* it is that same object.
CallerMutates(mutated) ==
    /\ mutated # caller_list
    /\ caller_list' = mutated
    /\ dtype_converters' = IF CopyShares THEN mutated ELSE dtype_converters
    /\ UNCHANGED <<store, pc, op, converted, pending, items, exc, session_open,
                   calls, snap, seen, fresh, written, ideal, active>>

Reads ==
    \/ \E p \in Tasks, n \in OneNames : get_one(p, n)
    \/ \E p \in Tasks, ns \in NameLists : get_many(p, ns)
    \/ \E p \in Tasks : get_all(p)
    \/ \E cs \in ConverterLists \ {dtype_converters} : set_dtype_converters(cs)
    \/ \E p \in Tasks : Execute(p)
    \/ \E p \in Tasks : Exit(p)

Writes ==
    \/ \E p \in Tasks, n \in OneNames, v \in OneValues : set_one(p, n, v)
    \/ \E p \in Tasks, d \in SetManyDicts : set_many(p, d)
    \/ \E p \in Tasks, d \in SetAllDicts : set_all(p, d)
    \/ \E p \in Tasks : Delete(p)
    \/ \E p \in Tasks : Merge(p)
    \/ \E p \in Tasks : Commit(p)

Next == Reads \/ Writes

\* The repository on a table that starts empty.
Spec == Init /\ [][Next]_vars

\* The repository reading a table it did not write.
InitExisting == \E table \in ExistingTables : InitWith(table)

SpecExisting == InitExisting /\ [][Reads]_vars

\* The repository and a caller that keeps and mutates the lists it passed.
NextCaller ==
    \/ Reads
    \/ \E mutated \in Mutations(caller_list) : CallerMutates(mutated)

SpecCaller == Init /\ [][NextCaller]_vars

\* ================================================================ claims
Reading == {"get_one", "get_many", "get_all"}
Writing == {"set_one", "set_many", "set_all"}
InSession == {"execute", "delete", "merge", "commit", "exit"}

\* converters[i] is the first converter whose PYTHON_TYPE the value is an
\* instance of; converters[k] is the first one registered under the tag.
FirstAccepting(converters, value, i) ==
    /\ i \in 1..Len(converters)
    /\ IsInstance(value, converters[i].PYTHON_TYPE)
    /\ \A j \in 1..(i - 1) : ~IsInstance(value, converters[j].PYTHON_TYPE)
FirstTagged(converters, tag, k) ==
    /\ k \in 1..Len(converters)
    /\ converters[k].TYPE_NAME = tag
    /\ \A l \in 1..(k - 1) : converters[l].TYPE_NAME # tag
Registered(converters, tag) ==
    \E k \in 1..Len(converters) : converters[k].TYPE_NAME = tag
Decoded(converters, row, value) ==
    \E k \in 1..Len(converters) :
        /\ FirstTagged(converters, row.type, k)
        /\ value = to_python_type(converters[k], row.value)
Encoded(converters, name, value, row) ==
    \E i \in 1..Len(converters) :
        /\ FirstAccepting(converters, value, i)
        /\ row = Setting(name, converters[i].TYPE_NAME, to_db_format(converters[i], value))
RowNames(table) == {row.name : row \in table}
\* The items a write was called with.
InputItems(call) ==
    IF call.kind = "set_one" THEN <<Item(call.name, call.value)>> ELSE call.settings
\* A get_one is about to return after it read the record of a set_one(k, v)
\* that no later write to k and no converter swap has followed.
ReadsBack(p, v) ==
    /\ pc[p] = "exit"
    /\ op[p].kind = "get_one"
    /\ v \in seen[p]

\* C1 (as amended): after set_one(k, v) has committed, with no later write to
\* k and no converter swap since the set_one was called, get_one(k) returns
\* v, provided the first converter accepting v and the first converter
\* registered under that converter's TYPE_NAME invert each other on v.  The
\* last committed set_one(k, .) is the one read back.
RoundTrips(converters, v) ==
    \E i, k \in 1..Len(converters) :
        /\ FirstAccepting(converters, v, i)
        /\ FirstTagged(converters, converters[i].TYPE_NAME, k)
        /\ to_python_type(converters[k], to_db_format(converters[i], v)) = v
C1_RoundTrip ==
    \A p \in Tasks : \A v \in Values :
        ReadsBack(p, v) /\ RoundTrips(dtype_converters, v)
        => \A r \in Returning(p) : r.st = "ok" /\ r.dict[op[p].name] = v
C1_Witness ==
    \E p \in Tasks : \E v \in Values :
        /\ ReadsBack(p, v) /\ RoundTrips(dtype_converters, v)
        /\ \E r \in Returning(p) : r.st = "ok" /\ r.dict[op[p].name] = v
\* C1 as stated: it is enough that some registered converter accepts v and
\* inverts itself on v (equality as Python's ==).
C1_Original ==
    \A p \in Tasks : \A v \in Values :
        /\ ReadsBack(p, v)
        /\ \E i \in 1..Len(dtype_converters) :
              /\ IsInstance(v, dtype_converters[i].PYTHON_TYPE)
              /\ PyEq(to_python_type(dtype_converters[i],
                                     to_db_format(dtype_converters[i], v)), v)
        => \A r \in Returning(p) : r.st = "ok" /\ PyEq(r.dict[op[p].name], v)

\* C2: a set_all(m) whose values all convert and whose store calls all
\* succeed completes, and leaves exactly the records of m in the table.
C2_SetAllReplaces ==
    \A p \in Tasks :
        pc[p] = "exit" /\ op[p].kind = "set_all" /\ exc[p].st # "StoreFailure"
        => /\ exc[p].st = ""
           /\ (\A q \in Tasks \ {p} : pc[q] = "idle")
                 => store = {converted[p][i] : i \in DOMAIN converted[p]}

\* C3: the committed table changes only in the step in which a write's
\* commit succeeds, and then by all of that write's records at once; the
\* step in which a call fails changes nothing in the table and never
\* follows that call's commit, and a set_many or set_all ends with its
\* failure if it had one.
C3_AllOrNothing ==
    [][ /\ store' # store
           => \E p \in Tasks :
                 /\ pc[p] = "commit" /\ pc'[p] = "exit"
                 /\ exc[p].st = "" /\ exc'[p].st = ""
                 /\ store' = WholeWrite(store, op[p], converted[p])
        /\ \A p \in Tasks :
              /\ exc[p].st = "" /\ exc'[p].st # ""
                 => store' = store /\ pc[p] # "exit"
              /\ pc[p] = "exit" /\ op[p].kind \in {"set_many", "set_all"}
                 => Returning(p) = IF exc[p].st # ""
                                   THEN {[st |-> exc[p].st, tag |-> exc[p].tag,
                                          dict |-> EmptyDict]}
                                   ELSE {[st |-> "ok", tag |-> "", dict |-> EmptyDict]}
      ]_vars
\* A set_many whose second merge (or commit) failed after its first record
\* was staged: that record is not in the table.
C3_Witness ==
    \E p \in Tasks :
        /\ pc[p] = "exit" /\ op[p].kind = "set_many"
        /\ exc[p].st = "StoreFailure"
        /\ Len(pending[p].merged) >= 1
        /\ pending[p].merged[1] \notin store

\* C4: get_many(keys) ends with a mapping or with ConverterNotFound (or a
\* store failure), never with a failure for an absent key; the mapping's
\* keys are the requested names present in the table it read, each with
\* the decoded value of its record.
C4_GetMany ==
    \A p \in Tasks :
        pc[p] = "exit" /\ op[p].kind = "get_many" /\ exc[p].st # "StoreFailure"
        => \A r \in Returning(p) :
              /\ r.st \in {"ok", "ConverterNotFound"}
              /\ r.st = "ConverterNotFound"
                    => \E row \in snap[p] : /\ row.name \in op[p].names
                                            /\ ~Registered(dtype_converters, row.type)
              /\ r.st = "ok"
                    => /\ DOMAIN r.dict = op[p].names \cap RowNames(snap[p])
                       /\ \A n \in DOMAIN r.dict :
                             \E row \in snap[p] :
                                 row.name = n /\ Decoded(dtype_converters, row, r.dict[n])
\* get_many(["a", "b"]) on a table holding b and c and no a returns {b: ...}.
C4_Witness ==
    \E p \in Tasks :
        /\ pc[p] = "exit" /\ op[p].kind = "get_many" /\ exc[p].st = ""
        /\ RowNames(snap[p]) = {"b", "c"}
        /\ \E r \in Returning(p) : r.st = "ok" /\ DOMAIN r.dict = {"b"}

\* C5: get_all() on a table whose type tags are all registered returns one
\* entry per record, name to decoded value.
C5_GetAll ==
    \A p \in Tasks :
        /\ pc[p] = "exit" /\ op[p].kind = "get_all" /\ exc[p].st # "StoreFailure"
        /\ \A row \in snap[p] : Registered(dtype_converters, row.type)
        => \A r \in Returning(p) :
              /\ r.st = "ok"
              /\ DOMAIN r.dict = RowNames(snap[p])
              /\ \A n \in DOMAIN r.dict :
                    \E row \in snap[p] :
                        row.name = n /\ Decoded(dtype_converters, row, r.dict[n])

\* C6: get_one(key) with no matching record ends with NoResultFound, with
\* more than one with MultipleResultsFound (two different exceptions), and
\* returns a value in neither case; with exactly one it returns or fails on
\* the conversion.
C6_GetOneExactlyOne ==
    \A p \in Tasks :
        pc[p] = "exit" /\ op[p].kind = "get_one" /\ exc[p].st # "StoreFailure"
        => LET n == Cardinality({row \in snap[p] : row.name = op[p].name})
           IN \A r \in Returning(p) :
                 /\ n = 0 => r.st = "NoResultFound" /\ r.dict = EmptyDict
                 /\ n > 1 => r.st = "MultipleResultsFound" /\ r.dict = EmptyDict
                 /\ n = 1 => r.st \in {"ok", "ConverterNotFound"}
                 /\ r.st = "ok" => DOMAIN r.dict = {op[p].name}
C6_Witness ==
    \E p \in Tasks :
        /\ pc[p] = "exit" /\ op[p].kind = "get_one"
        /\ Cardinality({row \in snap[p] : row.name = op[p].name}) > 1
        /\ \E r \in Returning(p) : r.st = "MultipleResultsFound"

\* C7: every record a write stages carries the tag and the encoding of the
\* first converter, in registration order, that its value is an instance
\* of; every value a get_one or get_many returns is decoded by the first
\* converter registered under the record's tag.
C7_FirstRegisteredWins ==
    \A p \in Tasks :
        /\ fresh[p]
           => /\ Len(converted[p]) = Len(InputItems(op[p]))
              /\ \A i \in DOMAIN converted[p] :
                    Encoded(dtype_converters, InputItems(op[p])[i].name,
                            InputItems(op[p])[i].value, converted[p][i])
        /\ pc[p] = "exit" /\ op[p].kind \in {"get_one", "get_many"} /\ exc[p].st = ""
           => \A r \in Returning(p) :
                 r.st = "ok"
                 => \A n \in DOMAIN r.dict :
                       \E item \in items[p] :
                           /\ item.setting.name = n
                           /\ Decoded(dtype_converters, item.setting, r.dict[n])
\* True is staged under the int converter registered before BoolConverter,
\* while a get_one is about to return a value decoded under a tag that two
\* converters are registered for.
C7_Witness ==
    /\ \E p \in Tasks :
          /\ fresh[p] /\ op[p].kind = "set_many"
          /\ op[p].settings[1].value = TRUE1
          /\ converted[p][1] = Setting("a", "str", "1")
    /\ \E q \in Tasks :
          /\ pc[q] = "exit" /\ op[q].kind = "get_one" /\ exc[q].st = ""
          /\ \E item \in items[q] : item.setting.type = "str"
          /\ \E r \in Returning(q) : r.st = "ok"

\* C8: a read that selected a record whose tag no registered converter
\* carries ends with ConverterNotFound carrying such a tag, and returns no
\* mapping.
C8_DecodeFailureAborts ==
    \A p \in Tasks :
        /\ pc[p] = "exit" /\ op[p].kind \in Reading /\ exc[p].st = ""
        /\ \E item \in items[p] : ~Registered(dtype_converters, item.setting.type)
        => \A r \in Returning(p) :
              /\ r.st = "ConverterNotFound"
              /\ r.dict = EmptyDict
              /\ \E item \in items[p] :
                    /\ ~Registered(dtype_converters, item.setting.type)
                    /\ r.tag = item.setting.type

\* C9: a task's session is open exactly while its coroutine is inside
\* `async with`; a task that is not running a call, or whose call raised
\* before `async with`, holds no session.
C9_SessionScoped ==
    \A p \in Tasks :
        /\ pc[p] \in InSession => session_open[p]
        /\ pc[p] \notin InSession => ~session_open[p]
\* Every call that was started has ended, none of them having committed
\* (reads, and writes that failed), and no session is open.
C9_Witness ==
    /\ calls = MaxCalls
    /\ store = {}
    /\ \A p \in Tasks : pc[p] = "idle" /\ ~session_open[p]

\* C10: the committed table is at every instant the outcome of whole
\* writes, and what get_many or get_all returns is decoded from the table
\* as it stood at the instant of its query.
C10_NoPartialCommit ==
    /\ store = ideal
    /\ \A p \in Tasks :
          pc[p] = "exit" /\ op[p].kind \in {"get_many", "get_all"} /\ exc[p].st = ""
          => \A r \in Returning(p) :
                r.st = "ok"
                => \A n \in DOMAIN r.dict :
                      \E row \in snap[p] :
                          row.name = n /\ Decoded(dtype_converters, row, r.dict[n])
\* A get_many is about to return the table's content while a set_many has
\* staged both of its records and committed neither.
C10_Witness ==
    \E p, q \in Tasks :
        /\ pc[p] = "exit" /\ op[p].kind = "get_many" /\ exc[p].st = ""
        /\ \E r \in Returning(p) : r.st = "ok" /\ DOMAIN r.dict # {}
        /\ pc[q] = "commit" /\ op[q].kind = "set_many"
        /\ \E i \in DOMAIN pending[q].merged : pending[q].merged[i] \notin store

\* The result r of a read of task p is what the converter list produces from
\* the records the read selected: the decoded values, or ConverterNotFound
\* when a selected record's tag is not registered in it.
DecodedBy(converters, p, r) ==
    \/ /\ r.st = "ok"
       /\ \A item \in items[p] : Registered(converters, item.setting.type)
       /\ \A n \in DOMAIN r.dict :
             \E item \in items[p] :
                 /\ item.setting.name = n
                 /\ Decoded(converters, item.setting, r.dict[n])
    \/ /\ r.st = "ConverterNotFound"
       /\ \E item \in items[p] : ~Registered(converters, item.setting.type)
\* The records a write of task p holds are what the converter list produces
\* from the values the write was called with.
EncodedBy(converters, p) ==
    /\ Len(converted[p]) = Len(InputItems(op[p]))
    /\ \A i \in DOMAIN converted[p] :
          Encoded(converters, InputItems(op[p])[i].name,
                  InputItems(op[p])[i].value, converted[p][i])

\* C11 (as amended): a converter swap affects the selections made after it.
\* A write selects before its first store await: the records it merges are
\* produced by the list that was active when it started, whatever is swapped
\* in while it is suspended.  A get_one or get_many selects after its store
\* await: what it returns is produced by the list active when it ends.
C11_SwapAffectsLaterSelections ==
    \A p \in Tasks :
        /\ pc[p] \in InSession /\ op[p].kind \in Writing
           => EncodedBy(active[p], p)
        /\ pc[p] = "exit" /\ op[p].kind \in {"get_one", "get_many"} /\ exc[p].st = ""
           => \A r \in Returning(p) : DecodedBy(dtype_converters, p, r)
\* A get_one that was suspended at its query when the list was swapped is
\* about to return what the list it started under would not have produced.
C11_Witness ==
    \E p \in Tasks :
        /\ pc[p] = "exit" /\ op[p].kind = "get_one" /\ exc[p].st = ""
        /\ active[p] # dtype_converters
        /\ \E r \in Returning(p) :
              DecodedBy(dtype_converters, p, r) /\ ~DecodedBy(active[p], p, r)
\* C11 as stated: the record written and the value returned are those of the
\* list that was active when the operation started.
C11_Original ==
    \A p \in Tasks :
        /\ pc[p] \in InSession /\ op[p].kind \in Writing
           => EncodedBy(active[p], p)
        /\ pc[p] = "exit" /\ op[p].kind \in {"get_one", "get_many"} /\ exc[p].st = ""
           => \A r \in Returning(p) : DecodedBy(active[p], p, r)

\* C12: the registry is a copy of the list it was given.  A step in which
\* the caller mutates the list it passed (to the constructor or to
\* set_dtype_converters) leaves the active sequence as it was; the active
\* sequence changes only in a set_dtype_converters step, and then to the
\* whole of the list passed.
C12_DefensiveCopy ==
    [][ /\ caller_list' # caller_list /\ calls' = calls
           => dtype_converters' = dtype_converters
        /\ dtype_converters' # dtype_converters
           => /\ calls' = calls + 1
              /\ pc' = pc
              /\ dtype_converters' = caller_list'
      ]_vars
\* The caller's list is no longer what it passed, and the registry is.
C12_Witness ==
    /\ caller_list \notin ConverterLists
    /\ dtype_converters \in ConverterLists
    /\ calls >= 1

\* C13: the type of every stored record is the TYPE_NAME of a converter in
\* the active list.
C13_TypeTagInvariant ==
    \A row \in store : Registered(dtype_converters, row.type)

\* C14: a read issues no merge, delete or commit; a write commits only after
\* every merge of its list, set_all merges only after its delete, and a write
\* whose values convert and whose store calls do not fail issues them all
\* and ends having committed.
C14_CommitOrdering ==
    \A p \in Tasks :
        /\ op[p].kind \in Reading
           => pending[p] = NoPending /\ pc[p] \notin {"delete", "merge", "commit"}
        /\ pc[p] = "commit" => pending[p].merged = converted[p]
        /\ op[p].kind = "set_all" /\ pending[p].merged # <<>> => pending[p].delete
        /\ op[p].kind \in {"set_one", "set_many"} => ~pending[p].delete
        /\ pc[p] = "exit" /\ op[p].kind \in Writing /\ exc[p].st # "StoreFailure"
           => /\ exc[p].st = ""
              /\ pending[p].merged = converted[p]
              /\ op[p].kind = "set_all" => pending[p].delete

\* Some value the write was called with is an instance of no converter's
\* PYTHON_TYPE.
Unconvertible(converters, call) ==
    \E i \in DOMAIN InputItems(call) :
        \A k \in 1..Len(converters) :
            ~IsInstance(InputItems(call)[i].value, converters[k].PYTHON_TYPE)

\* C15: a set_one, set_many or set_all called with a value that no
\* registered converter accepts raises ConverterNotFound in the step in
\* which it is called: it acquires no session and stages nothing, the
\* table is the same after that step, and after the step in which the
\* exception reaches the caller.
C15_EncodeFailureUntouched ==
    [][ \A p \in Tasks :
           /\ /\ pc[p] = "idle" /\ pc'[p] # "idle"
              /\ op'[p].kind \in Writing
              /\ Unconvertible(dtype_converters, op'[p])
              => /\ pc'[p] = "raised"
                 /\ exc'[p].st = "ConverterNotFound"
                 /\ ~session_open'[p]
                 /\ pending'[p] = NoPending
                 /\ store' = store
           /\ pc[p] = "raised"
              => /\ \A r \in Returning(p) : r.st = "ConverterNotFound"
                 /\ pc'[p] # "raised" => pc'[p] = "idle" /\ store' = store
      ]_vars
\* A set_all has failed on a value while the table holds records.
C15_Witness ==
    \E p \in Tasks :
        /\ pc[p] = "raised" /\ op[p].kind = "set_all"
        /\ Unconvertible(active[p], op[p])
        /\ exc[p].st = "ConverterNotFound"
        /\ store # {}

\* The names a write was called with.
Keys(call) == {InputItems(call)[i].name : i \in DOMAIN InputItems(call)}

\* C16: the step in which a set_one or a set_many commits changes only
\* records named by the call: every record of another name is in the table
\* after the step exactly if it was before, no name disappears, and every
\* name of the call is in the table.
C16_UpsertFrame ==
    [][ \A p \in Tasks :
           /\ pc[p] = "commit" /\ pc'[p] = "exit" /\ exc'[p].st = ""
           /\ op[p].kind \in {"set_one", "set_many"}
           => /\ \A row \in store \cup store' :
                    row.name \notin Keys(op[p]) => (row \in store <=> row \in store')
              /\ RowNames(store) \subseteq RowNames(store')
              /\ Keys(op[p]) \subseteq RowNames(store')
      ]_vars
\* A set_many has committed and a record of a name it was not called with
\* is in the table.
C16_Witness ==
    \E p \in Tasks :
        /\ pc[p] = "exit" /\ op[p].kind = "set_many" /\ exc[p].st = ""
        /\ Keys(op[p]) \subseteq RowNames(store)
        /\ \E row \in store : row.name \notin Keys(op[p])

\* C17: the table holds at most one record per name, and no get_one ends
\* with the multiple-match failure.
C17_NameUnique ==
    /\ \A r1, r2 \in store : r1.name = r2.name => r1 = r2
    /\ \A p \in Tasks : exc[p].st # "MultipleResultsFound"
\* Two writes have put records of three names in the table, and a get_one
\* has found its single record.
C17_Witness ==
    /\ RowNames(store) = {"a", "b", "c"}
    /\ \E p \in Tasks :
          /\ pc[p] = "exit" /\ op[p].kind = "get_one" /\ exc[p].st = ""
          /\ Cardinality(items[p]) = 1

====
